---- MODULE Spec2Model ----
(***************************************************************************)
(* Model of RepoAnalyzer (repo_analyzer.py): the tree walker, the          *)
(* technology detector, the line-metrics aggregator and the                *)
(* analyze_repository pipeline around them.                                *)
(*                                                                         *)
(* Python strings are sequences of one-character strings, so that strip,   *)
(* startswith, endswith, splitext, lower and the substring test are        *)
(* computed, not assumed.                                                  *)
(***************************************************************************)
EXTENDS Integers, Sequences, FiniteSets, TLC

VARIABLES
    entry,        \* the method the caller invoked
    pc,           \* position inside that method
    rootKind,     \* what repo_path names on disk: "dir", "missing" or "file"
    fs_dirs,      \* directories under repo_path (paths as sequences of names)
    fs_files,     \* files under repo_path: [dir, name] -> [status, lines, size]
    structure,    \* _analyze_file_structure's result dict
    walkStack,    \* directories the first os.walk still has to yield
    tech_stack,   \* _identify_technologies' result dict
    techIdx,      \* position in config_files.items()
    metrics,      \* _analyze_code_metrics' result dict
    mstack,       \* directories the second os.walk still has to yield
    mpend,        \* files of the current directory not yet looped over
    counted,      \* files whose lines were added to metrics
    raised,       \* exception propagating out of the current call ("none" if none)
    gitMeta,      \* what GitPython can read at repo_path
    repository_info, \* _get_repository_info's result ("unset" before)
    localRepo,    \* state of <repo_dir>/repo before the call
    remoteEmpty,  \* the remote has no commits
    repoDirExisted, \* <output_dir>/<repo_name> existed before the call
    created,      \* artefacts this invocation created on disk
    instructions, \* state of instructions.md: "absent", "partial", "written"
    report,       \* state of report.md: "absent", "partial", "written"
    result        \* analyze_repository's returned success flag ("none" before)

vars == <<entry, pc, rootKind, fs_dirs, fs_files, structure, walkStack, tech_stack,
          techIdx, metrics, mstack, mpend, counted, raised, gitMeta, repository_info,
          localRepo, remoteEmpty, repoDirExisted, created, instructions,
          report, result>>

(***************************************************************************)
(* Bounds of the model.                                                    *)
(***************************************************************************)
MaxLines == 2
MaxMetricFiles == 2
MaxWalkFiles == 2
MaxTechEntries == 2
MaxPipeFiles == 1

(***************************************************************************)
(* Python string operations.                                               *)
(***************************************************************************)
Whitespace == {" ", "\t", "\n", "\r"}

RECURSIVE lstrip(_)
lstrip(s) == IF s # <<>> /\ Head(s) \in Whitespace THEN lstrip(Tail(s)) ELSE s

RECURSIVE rstrip(_)
rstrip(s) ==
    IF s # <<>> /\ s[Len(s)] \in Whitespace THEN rstrip(SubSeq(s, 1, Len(s) - 1)) ELSE s

strip(s) == rstrip(lstrip(s))

startswith(s, p) == Len(s) >= Len(p) /\ SubSeq(s, 1, Len(p)) = p

endswith(s, p) == Len(s) >= Len(p) /\ SubSeq(s, Len(s) - Len(p) + 1, Len(s)) = p

\* Python's  sub in s  on strings
contains(s, sub) ==
    \E i \in 0..(Len(s) - Len(sub)) : SubSeq(s, i + 1, i + Len(sub)) = sub

UpperCase ==
    <<"A", "B", "C", "D", "E", "F", "G", "H", "I", "J", "K", "L", "M",
      "N", "O", "P", "Q", "R", "S", "T", "U", "V", "W", "X", "Y", "Z">>

LowerCase ==
    <<"a", "b", "c", "d", "e", "f", "g", "h", "i", "j", "k", "l", "m",
      "n", "o", "p", "q", "r", "s", "t", "u", "v", "w", "x", "y", "z">>

lowerChar(c) ==
    IF \E i \in 1..26 : UpperCase[i] = c
    THEN LowerCase[CHOOSE i \in 1..26 : UpperCase[i] = c]
    ELSE c

lower(s) == [i \in 1..Len(s) |-> lowerChar(s[i])]

\* os.path.join(a, b) for a relative, non-empty a and a plain name b
pathjoin(a, b) == a \o <<"/">> \o b

\* os.path.splitext(name)[1]: from the last dot, unless only dots precede it
splitext1(name) ==
    LET dots == {i \in 1..Len(name) : name[i] = "."}
    IN  IF dots = {} THEN <<>>
        ELSE LET last == CHOOSE i \in dots : \A j \in dots : j <= i
             IN  IF \E k \in 1..(last - 1) : name[k] # "."
                 THEN SubSeq(name, last, Len(name))
                 ELSE <<>>

(***************************************************************************)
(* Line classification and size buckets of _analyze_code_metrics.          *)
(***************************************************************************)
CommentTokens ==
    { <<"#">>, <<"/", "/">>, <<"/", "*">>, <<"*">>, <<"*", "/">> }

SourceSuffixes ==
    { <<".", "p", "y">>, <<".", "j", "s">>, <<".", "j", "a", "v", "a">>,
      <<".", "c", "p", "p">>, <<".", "c", "s">>, <<".", "r", "b">>,
      <<".", "p", "h", "p">>, <<".", "g", "o">> }

SmallLimit == 100
MediumLimit == 500

startswithAny(s, ps) == \E p \in ps : startswith(s, p)

endswithAny(s, ps) == \E p \in ps : endswith(s, p)

IsCodeLine(l) == strip(l) # <<>> /\ ~startswithAny(strip(l), CommentTokens)

IsCommentLine_NoStrip(l) == startswithAny(l, CommentTokens)

IsCommentLine(l) == startswithAny(strip(l), CommentTokens)

IsBlankLine(l) == strip(l) = <<>>

\* len([l for l in lines if ...]) for each of the three comprehensions
CodeCount(lines) == Cardinality({i \in 1..Len(lines) : IsCodeLine(lines[i])})

CommentCount(lines) == Cardinality({i \in 1..Len(lines) : IsCommentLine(lines[i])})

BlankCount(lines) == Cardinality({i \in 1..Len(lines) : IsBlankLine(lines[i])})

SizeBucket_OffByOne(n) ==
    IF n <= SmallLimit THEN "small"
    ELSE IF n <= MediumLimit THEN "medium"
    ELSE "large"

SizeBucket(n) ==
    IF n < SmallLimit THEN "small"
    ELSE IF n < MediumLimit THEN "medium"
    ELSE "large"

ZeroMetrics ==
    [total_lines |-> 0, code_lines |-> 0, comment_lines |-> 0, blank_lines |-> 0,
     small |-> 0, medium |-> 0, large |-> 0]

\* the body of the  with open(...)  block for a file that was read
AddFile(m, lines) ==
    LET b == SizeBucket(Len(lines))
    IN  [total_lines   |-> m.total_lines + Len(lines),
         code_lines    |-> m.code_lines + CodeCount(lines),
         comment_lines |-> m.comment_lines + CommentCount(lines),
         blank_lines   |-> m.blank_lines + BlankCount(lines),
         small         |-> m.small + (IF b = "small" THEN 1 ELSE 0),
         medium        |-> m.medium + (IF b = "medium" THEN 1 ELSE 0),
         large         |-> m.large + (IF b = "large" THEN 1 ELSE 0)]

\* open() + readlines() succeed only on an openable, UTF-8 decodable file
ReadOk_IgnoreDecodeErrors(c) == c.status # "noopen"

ReadOk(c) == c.status = "ok"

\* one pass of  try: ... except Exception: continue  over a source-like file
MetricsAfterRead(m, c) == IF ReadOk(c) THEN AddFile(m, c.lines) ELSE m

IsSourceLike(name) == endswithAny(name, SourceSuffixes)

(***************************************************************************)
(* The tree at repo_path.                                                  *)
(***************************************************************************)
N_src == <<"s", "r", "c">>
N_git == <<".", "g", "i", "t">>
N_github == <<".", "g", "i", "t", "h", "u", "b">>
N_a_py == <<"a", ".", "p", "y">>
N_B_PY == <<"B", ".", "P", "Y">>
N_README == <<"R", "E", "A", "D", "M", "E">>
N_package_json == <<"p", "a", "c", "k", "a", "g", "e", ".", "j", "s", "o", "n">>
N_requirements_txt ==
    <<"r", "e", "q", "u", "i", "r", "e", "m", "e", "n", "t", "s", ".", "t", "x", "t">>
N_pom_xml == <<"p", "o", "m", ".", "x", "m", "l">>
N_build_gradle == <<"b", "u", "i", "l", "d", ".", "g", "r", "a", "d", "l", "e">>
N_Cargo_toml == <<"C", "a", "r", "g", "o", ".", "t", "o", "m", "l">>
N_go_mod == <<"g", "o", ".", "m", "o", "d">>
N_Gemfile == <<"G", "e", "m", "f", "i", "l", "e">>
N_composer_json == <<"c", "o", "m", "p", "o", "s", "e", "r", ".", "j", "s", "o", "n">>
N_Dockerfile == <<"D", "o", "c", "k", "e", "r", "f", "i", "l", "e">>
N_docker_compose_yml ==
    <<"d", "o", "c", "k", "e", "r", "-", "c", "o", "m", "p", "o", "s", "e", ".", "y", "m", "l">>

RootDir == <<>>

Parent(d) == SubSeq(d, 1, Len(d) - 1)

\* a set of directories is a tree when every directory's parent is in it
IsTree(ds) == \A d \in ds : d # RootDir /\ (Len(d) > 1 => Parent(d) \in ds)

FilesIn(d) == {f \in DOMAIN fs_files : f.dir = d}

SubdirsOf(d) == {x \in fs_dirs : x # RootDir /\ Parent(x) = d}

\* os.path.relpath(root, repo_path)
RECURSIVE JoinSegments(_)
JoinSegments(d) ==
    IF Len(d) = 1 THEN d[1] ELSE pathjoin(JoinSegments(Parent(d)), d[Len(d)])

relpath(d) == IF d = RootDir THEN <<".">> ELSE JoinSegments(d)

RECURSIVE SubsetsUpTo(_, _)
SubsetsUpTo(S, k) ==
    IF k = 0 THEN {{}}
    ELSE LET smaller == SubsetsUpTo(S, k - 1)
         IN  smaller \cup {T \cup {x} : T \in smaller, x \in S}

\* every order in which scandir may list a set of entries
Orders(S) ==
    {o \in [1..Cardinality(S) -> S] : \A i, j \in 1..Cardinality(S) : o[i] = o[j] => i = j}

(***************************************************************************)
(* Dict helpers.                                                           *)
(***************************************************************************)
EmptyDict == <<>>

Get(d, k, default) == IF k \in DOMAIN d THEN d[k] ELSE default

Put(d, k, v) == [x \in (DOMAIN d) \cup {k} |-> IF x = k THEN v ELSE d[x]]

(***************************************************************************)
(* _analyze_file_structure                                                 *)
(***************************************************************************)
EmptyStructure ==
    [directories |-> EmptyDict, files |-> EmptyDict, file_types |-> EmptyDict,
     total_files |-> 0]

\* the  if ".git" in rel_path: continue  test
IsGitPath_LastSegment(rel_path) == endswith(rel_path, N_git)

IsGitPath(rel_path) == contains(rel_path, N_git)

\* the body of  for file in files  for one file
RecordFile(st, rel_path, f) ==
    LET ext == lower(splitext1(f.name))
    IN  [st EXCEPT
            !.file_types = Put(@, ext, Get(@, ext, 0) + 1),
            !.total_files = @ + 1,
            !.files = Put(@, pathjoin(rel_path, f.name),
                          [size |-> fs_files[f].size, extension |-> ext])]

RECURSIVE RecordFiles(_, _, _)
RecordFiles(st, rel_path, fset) ==
    IF fset = {} THEN st
    ELSE LET f == CHOOSE x \in fset : TRUE
         IN  RecordFiles(RecordFile(st, rel_path, f), rel_path, fset \ {f})

\* the body of  for root, dirs, files in os.walk(repo_path)  for one directory
VisitDir(st, d) ==
    LET rel_path == relpath(d)
    IN  IF rel_path = <<".">> THEN st
        ELSE IF IsGitPath(rel_path) THEN st
        ELSE RecordFiles(
                [st EXCEPT !.directories =
                    Put(@, rel_path, [file_count |-> Cardinality(FilesIn(d)),
                                      subdirectories |-> Cardinality(SubdirsOf(d))])],
                rel_path, FilesIn(d))

\* what os.walk leaves on its stack after yielding the directory on top:
\* the subdirectories in some listing order; nothing below a path that is
\* not a directory (scandir's OSError is dropped, onerror being None)
AfterPop(stack, order) == SubSeq(stack, 1, Len(stack) - 1) \o order

Top(stack) == stack[Len(stack)]

NextPc(stage) ==
    CASE stage = "repo_info" -> "walk"
      [] stage = "walk" ->
            IF entry = "_analyze_file_structure" THEN "done" ELSE "tech"
      [] stage = "tech" ->
            IF entry = "_identify_technologies" THEN "done" ELSE "metrics"
      [] stage = "metrics" ->
            IF entry = "analyze_repository" THEN "prompt" ELSE "done"

WalkDir ==
    /\ pc = "walk"
    /\ walkStack # <<>>
    /\ LET d == Top(walkStack)
       IN  IF d = RootDir /\ rootKind # "dir"
           THEN /\ walkStack' = AfterPop(walkStack, <<>>)
                /\ UNCHANGED structure
           ELSE /\ \E order \in Orders(SubdirsOf(d)) :
                        walkStack' = AfterPop(walkStack, order)
                /\ structure' = VisitDir(structure, d)
    /\ UNCHANGED <<entry, pc, rootKind, fs_dirs, fs_files, tech_stack, techIdx,
                   metrics, mstack, mpend, counted, raised, gitMeta,
                   repository_info, localRepo, remoteEmpty, repoDirExisted,
                   created, instructions, report, result>>

WalkReturn ==
    /\ pc = "walk"
    /\ walkStack = <<>>
    /\ pc' = NextPc("walk")
    /\ UNCHANGED <<entry, rootKind, fs_dirs, fs_files, structure, walkStack,
                   tech_stack, techIdx, metrics, mstack, mpend, counted, raised,
                   gitMeta, repository_info, localRepo, remoteEmpty,
                   repoDirExisted, created, instructions, report, result>>

(***************************************************************************)
(* _identify_technologies                                                  *)
(***************************************************************************)
config_files ==
    << [file |-> N_package_json,       tech |-> "Node.js"],
       [file |-> N_requirements_txt,   tech |-> "Python"],
       [file |-> N_pom_xml,            tech |-> "Java/Maven"],
       [file |-> N_build_gradle,       tech |-> "Java/Gradle"],
       [file |-> N_Cargo_toml,         tech |-> "Rust"],
       [file |-> N_go_mod,             tech |-> "Go"],
       [file |-> N_Gemfile,            tech |-> "Ruby"],
       [file |-> N_composer_json,      tech |-> "PHP"],
       [file |-> N_Dockerfile,         tech |-> "Docker"],
       [file |-> N_docker_compose_yml, tech |-> "Docker"] >>

EmptyTechStack ==
    [languages |-> EmptyDict, frameworks |-> EmptyDict, dependencies |-> EmptyDict]

\* (repo_path / name).exists(): any entry of that name directly under repo_path
PathExists(name) ==
    /\ rootKind = "dir"
    /\ \/ \E f \in DOMAIN fs_files : f.dir = RootDir /\ f.name = name
       \/ <<name>> \in fs_dirs

\* one pass of  for file, tech in config_files.items()
TechCheck ==
    /\ pc = "tech"
    /\ techIdx <= Len(config_files)
    /\ tech_stack' =
          IF PathExists(config_files[techIdx].file)
          THEN [tech_stack EXCEPT
                   !.languages = Put(@, config_files[techIdx].tech, "detected")]
          ELSE tech_stack
    /\ techIdx' = techIdx + 1
    /\ UNCHANGED <<entry, pc, rootKind, fs_dirs, fs_files, structure, walkStack,
                   metrics, mstack, mpend, counted, raised, gitMeta,
                   repository_info, localRepo, remoteEmpty, repoDirExisted,
                   created, instructions, report, result>>

TechReturn ==
    /\ pc = "tech"
    /\ techIdx > Len(config_files)
    /\ pc' = NextPc("tech")
    /\ UNCHANGED <<entry, rootKind, fs_dirs, fs_files, structure, walkStack,
                   tech_stack, techIdx, metrics, mstack, mpend, counted, raised,
                   gitMeta, repository_info, localRepo, remoteEmpty,
                   repoDirExisted, created, instructions, report, result>>

(***************************************************************************)
(* _analyze_code_metrics                                                   *)
(***************************************************************************)
\* os.walk yields the next directory: its files become the inner loop's list
MetricsDir ==
    /\ pc = "metrics"
    /\ mpend = {}
    /\ mstack # <<>>
    /\ LET d == Top(mstack)
       IN  IF d = RootDir /\ rootKind # "dir"
           THEN /\ mstack' = AfterPop(mstack, <<>>)
                /\ UNCHANGED mpend
           ELSE /\ \E order \in Orders(SubdirsOf(d)) :
                        mstack' = AfterPop(mstack, order)
                /\ mpend' = FilesIn(d)
    /\ UNCHANGED <<entry, pc, rootKind, fs_dirs, fs_files, structure, walkStack,
                   tech_stack, techIdx, metrics, counted, raised, gitMeta,
                   repository_info, localRepo, remoteEmpty, repoDirExisted,
                   created, instructions, report, result>>

\* one pass of  for file in files
MetricsFile ==
    /\ pc = "metrics"
    /\ \E f \in mpend :
          /\ mpend' = mpend \ {f}
          /\ IF IsSourceLike(f.name)
             THEN /\ metrics' = MetricsAfterRead(metrics, fs_files[f])
                  /\ counted' = IF ReadOk(fs_files[f]) THEN counted \cup {f}
                                ELSE counted
             ELSE UNCHANGED <<metrics, counted>>
    /\ UNCHANGED <<entry, pc, rootKind, fs_dirs, fs_files, structure, walkStack,
                   tech_stack, techIdx, mstack, raised, gitMeta,
                   repository_info, localRepo, remoteEmpty, repoDirExisted,
                   created, instructions, report, result>>

MetricsReturn ==
    /\ pc = "metrics"
    /\ mpend = {}
    /\ mstack = <<>>
    /\ pc' = NextPc("metrics")
    /\ UNCHANGED <<entry, rootKind, fs_dirs, fs_files, structure, walkStack,
                   tech_stack, techIdx, metrics, mstack, mpend, counted, raised,
                   gitMeta, repository_info, localRepo, remoteEmpty,
                   repoDirExisted, created, instructions, report, result>>

(***************************************************************************)
(* analyze_repository, _clone_repository, _analyze_codebase,               *)
(* _get_repository_info                                                    *)
(***************************************************************************)
UnsetInfo ==
    [name |-> "", description |-> "", last_commit |-> "", branch |-> "",
     total_commits |-> 0, contributors |-> 0]

\* the exception  except Exception as e  at the end of analyze_repository
\* turns into  return False, ...
FailRun ==
    /\ result' = "failure"
    /\ pc' = "done"

\* repo_dir.mkdir(exist_ok=True)
Mkdir ==
    /\ pc = "mkdir"
    /\ \/ /\ created' = IF repoDirExisted THEN created ELSE created \cup {"repo_dir"}
          /\ pc' = "clone"
          /\ UNCHANGED result
       \/ /\ ~repoDirExisted
          /\ FailRun
          /\ UNCHANGED created
    /\ UNCHANGED <<entry, rootKind, fs_dirs, fs_files, structure, walkStack,
                   tech_stack, techIdx, metrics, mstack, mpend, counted, raised,
                   gitMeta, repository_info, localRepo, remoteEmpty,
                   repoDirExisted, instructions, report>>

\* git.Repo.clone_from(repo_url, repo_path) and what follows it
CloneFrom ==
    \/ /\ created' = created \cup {"repo"}
       /\ gitMeta' = IF remoteEmpty THEN "nocommits" ELSE "ok"
       /\ pc' = "repo_info"
       /\ UNCHANGED result
    \/ /\ FailRun
       /\ UNCHANGED <<created, gitMeta>>

\* repo_path = self._clone_repository(...); if not repo_path: return False, ...
Clone ==
    /\ pc = "clone"
    /\ \/ /\ localRepo = "absent"
          /\ CloneFrom
       \/ /\ localRepo = "notrepo"
          /\ FailRun
          /\ UNCHANGED <<created, gitMeta>>
       \/ /\ localRepo = "repo"
          /\ \/ /\ gitMeta' = "ok"
                /\ pc' = "repo_info"
                /\ UNCHANGED <<created, result>>
             \/ CloneFrom
    /\ UNCHANGED <<entry, rootKind, fs_dirs, fs_files, structure, walkStack,
                   tech_stack, techIdx, metrics, mstack, mpend, counted, raised,
                   repository_info, localRepo, remoteEmpty, repoDirExisted,
                   instructions, report>>

GitError(meta) ==
    CASE meta = "notrepo" ->
            IF rootKind = "missing" THEN "NoSuchPathError"
            ELSE "InvalidGitRepositoryError"
      [] meta = "nocommits" -> "ValueError"
      [] meta = "detached" -> "TypeError"

\* "repository_info": self._get_repository_info(repo_path)
RepoInfo ==
    /\ pc = "repo_info"
    /\ IF gitMeta = "ok"
       THEN /\ \E desc \in {"", "text"} :
                  repository_info' =
                      [name |-> "repo",
                       description |-> IF desc = "" THEN "No description available"
                                       ELSE desc,
                       last_commit |-> "2024-01-01 00:00:00+00:00",
                       branch |-> "main",
                       total_commits |-> 1,
                       contributors |-> 1]
            /\ pc' = NextPc("repo_info")
            /\ UNCHANGED <<raised, result>>
       ELSE /\ IF entry = "analyze_repository"
               THEN FailRun /\ UNCHANGED raised
               ELSE raised' = GitError(gitMeta) /\ pc' = "done" /\ UNCHANGED result
            /\ UNCHANGED repository_info
    /\ UNCHANGED <<entry, rootKind, fs_dirs, fs_files, structure, walkStack,
                   tech_stack, techIdx, metrics, mstack, mpend, counted, gitMeta,
                   localRepo, remoteEmpty, repoDirExisted, created, instructions,
                   report>>

\* prompt = self._generate_combined_prompt(analysis_results, repo_path)
Prompt ==
    /\ pc = "prompt"
    /\ pc' = "write_instructions"
    /\ UNCHANGED <<entry, rootKind, fs_dirs, fs_files, structure, walkStack,
                   tech_stack, techIdx, metrics, mstack, mpend, counted, raised,
                   gitMeta, repository_info, localRepo, remoteEmpty,
                   repoDirExisted, created, instructions, report, result>>

\* with open(instructions_path, "w") as f: f.write(prompt)
WriteInstructions ==
    /\ pc = "write_instructions"
    /\ \/ /\ instructions' = "written"
          /\ created' = created \cup {"instructions.md"}
          /\ pc' = "write_report"
          /\ UNCHANGED result
       \/ /\ FailRun
          /\ UNCHANGED <<instructions, created>>
       \/ /\ instructions' = "partial"
          /\ created' = created \cup {"instructions.md"}
          /\ FailRun
    /\ UNCHANGED <<entry, rootKind, fs_dirs, fs_files, structure, walkStack,
                   tech_stack, techIdx, metrics, mstack, mpend, counted, raised,
                   gitMeta, repository_info, localRepo, remoteEmpty,
                   repoDirExisted, report>>

\* with open(report_path, "w") as f: ...; return True, ...
WriteReport ==
    /\ pc = "write_report"
    /\ \/ /\ report' = "written"
          /\ created' = created \cup {"report.md"}
          /\ result' = "success"
          /\ pc' = "done"
       \/ /\ FailRun
          /\ UNCHANGED <<report, created>>
       \/ /\ report' = "partial"
          /\ created' = created \cup {"report.md"}
          /\ FailRun
    /\ UNCHANGED <<entry, rootKind, fs_dirs, fs_files, structure, walkStack,
                   tech_stack, techIdx, metrics, mstack, mpend, counted, raised,
                   gitMeta, repository_info, localRepo, remoteEmpty,
                   repoDirExisted, instructions>>

(***************************************************************************)
(* Initial states: the caller, the tree on disk and the environment.       *)
(***************************************************************************)
L_space == <<" ", "\n">>
L_hash == <<"#", "c", "\n">>
L_slash == <<" ", "/", "/", "\n">>
L_code == <<"x", "\n">>

LineSet == {L_space, L_hash, L_slash, L_code}

RECURSIVE CharCount(_)
CharCount(lines) ==
    IF lines = <<>> THEN 0
    ELSE IF Len(lines) = 1 THEN Len(lines[1])
    ELSE LET h == Len(lines) \div 2
         IN  CharCount(SubSeq(lines, 1, h)) + CharCount(SubSeq(lines, h + 1, Len(lines)))

Content(status, lines) ==
    [status |-> status, lines |-> lines,
     size |-> CharCount(lines) + (IF status = "baddecode" THEN 1 ELSE 0)]

ShortFiles == UNION {[1..n -> LineSet] : n \in 0..MaxLines}

BoundaryLengths == {SmallLimit - 1, SmallLimit, MediumLimit - 1, MediumLimit}

LongFiles == {[i \in 1..n |-> L_code] : n \in BoundaryLengths}

MetricContents ==
    {Content("ok", ls) : ls \in ShortFiles \cup LongFiles}
        \cup {Content("noopen", <<L_code>>), Content("baddecode", <<L_code, L_hash>>)}

PlainContents == {Content("ok", <<>>), Content("ok", <<L_code>>)}

PipeContents == {Content("ok", <<L_code>>), Content("baddecode", <<L_code>>)}

File(d, n) == [dir |-> d, name |-> n]

InitCall(e, startpc) ==
    /\ entry = e
    /\ pc = startpc
    /\ structure = EmptyStructure
    /\ walkStack = <<RootDir>>
    /\ tech_stack = EmptyTechStack
    /\ techIdx = 1
    /\ metrics = ZeroMetrics
    /\ mstack = <<RootDir>>
    /\ mpend = {}
    /\ counted = {}
    /\ raised = "none"
    /\ repository_info = UnsetInfo
    /\ created = {}
    /\ instructions = "absent"
    /\ report = "absent"
    /\ result = "none"

NoPipelineEnv ==
    /\ gitMeta = "ok"
    /\ localRepo = "absent"
    /\ remoteEmpty = FALSE
    /\ repoDirExisted = FALSE

\* a root that is not a directory has nothing under it
InitTree(dirChoices, names, contents, maxFiles) ==
    \/ /\ rootKind \in {"missing", "file"}
       /\ fs_dirs = {}
       /\ fs_files = <<>>
    \/ /\ rootKind = "dir"
       /\ fs_dirs \in dirChoices
       /\ \E F \in SubsetsUpTo({File(d, n) : d \in fs_dirs \cup {RootDir}, n \in names},
                               maxFiles) :
             fs_files \in [F -> contents]

WalkDirUniverse == {<<N_src>>, <<N_git>>, <<N_git, N_src>>, <<N_github>>}

WalkFileNames == {N_a_py, N_B_PY, N_README}

InitWalk ==
    /\ InitCall("_analyze_file_structure", "walk")
    /\ NoPipelineEnv
    /\ InitTree({ds \in SUBSET WalkDirUniverse : IsTree(ds)}, WalkFileNames,
                PlainContents, MaxWalkFiles)

NextWalk == WalkDir \/ WalkReturn

SpecWalk == InitWalk /\ [][NextWalk]_vars

TechDirUniverse == {<<N_src>>, <<N_Dockerfile>>}

TechFileNames == {N_package_json, N_Dockerfile, N_docker_compose_yml, N_README}

InitTech ==
    /\ InitCall("_identify_technologies", "tech")
    /\ NoPipelineEnv
    /\ InitTree(SUBSET TechDirUniverse, TechFileNames, {Content("ok", <<>>)},
                MaxTechEntries)
    /\ \A f \in DOMAIN fs_files : <<f.name>> \notin fs_dirs

NextTech == TechCheck \/ TechReturn

SpecTech == InitTech /\ [][NextTech]_vars

MetricFileNames == {N_a_py, N_README}

InitMetrics ==
    /\ InitCall("_analyze_code_metrics", "metrics")
    /\ NoPipelineEnv
    /\ InitTree({{<<N_src>>}}, MetricFileNames, MetricContents, MaxMetricFiles)
    /\ \A f \in DOMAIN fs_files :
          ~IsSourceLike(f.name) => fs_files[f] = Content("ok", <<L_code>>)

NextMetrics == MetricsDir \/ MetricsFile \/ MetricsReturn

SpecMetrics == InitMetrics /\ [][NextMetrics]_vars

PipeFileNames == {N_a_py, N_B_PY}

\* analyze_repository works on the clone, which always has a .git directory;
\* _analyze_codebase may be handed any path
InitPipeline ==
    \/ /\ InitCall("analyze_repository", "mkdir")
       /\ gitMeta = "none"
       /\ localRepo \in {"absent", "repo", "notrepo"}
       /\ remoteEmpty \in BOOLEAN
       /\ repoDirExisted \in BOOLEAN
       /\ localRepo # "absent" => repoDirExisted
       /\ localRepo = "repo" => ~remoteEmpty
       /\ InitTree({{<<N_git>>, <<N_github>>, <<N_src>>}}, PipeFileNames,
                   PipeContents, MaxPipeFiles)
       /\ rootKind = "dir"
       /\ remoteEmpty => fs_files = <<>>
    \/ /\ InitCall("_analyze_codebase", "repo_info")
       /\ localRepo = "absent"
       /\ remoteEmpty = FALSE
       /\ repoDirExisted = FALSE
       /\ InitTree({{<<N_git>>, <<N_github>>, <<N_src>>}, {<<N_src>>}},
                   PipeFileNames, PipeContents, MaxPipeFiles)
       /\ rootKind # "file"
       /\ gitMeta \in {"ok", "notrepo", "nocommits", "detached"}
       /\ (gitMeta = "notrepo") <=> (<<N_git>> \notin fs_dirs)
       /\ gitMeta = "nocommits" => fs_files = <<>>

Next ==
    \/ Mkdir
    \/ Clone
    \/ RepoInfo
    \/ WalkDir
    \/ WalkReturn
    \/ TechCheck
    \/ TechReturn
    \/ MetricsDir
    \/ MetricsFile
    \/ MetricsReturn
    \/ Prompt
    \/ WriteInstructions
    \/ WriteReport

Spec == InitPipeline /\ [][Next]_vars

(***************************************************************************)
(* Properties.                                                             *)
(***************************************************************************)
SourceFiles == {f \in DOMAIN fs_files : IsSourceLike(f.name)}

\* C1: after any sequence of files, read or skipped, the aggregate satisfies
\* total_lines = code_lines + comment_lines + blank_lines.
C1_LineSumInvariant ==
    metrics.total_lines =
        metrics.code_lines + metrics.comment_lines + metrics.blank_lines

C1_Witness ==
    /\ pc = "done"
    /\ entry = "_analyze_code_metrics"
    /\ metrics.code_lines > 0
    /\ metrics.comment_lines > 0
    /\ metrics.blank_lines > 0
    /\ \E f \in counted : \E i \in 1..Len(fs_files[f].lines) :
          fs_files[f].lines[i] = L_slash

C3_GitPathsExcluded ==
    /\ \A d \in fs_dirs :
          contains(relpath(d), N_git) =>
             /\ relpath(d) \notin DOMAIN structure.directories
             /\ \A f \in FilesIn(d) :
                   pathjoin(relpath(d), f.name) \notin DOMAIN structure.files
    /\ structure.total_files = Cardinality(DOMAIN structure.files)
    /\ \A e \in DOMAIN structure.file_types :
          structure.file_types[e] =
             Cardinality({k \in DOMAIN structure.files :
                             structure.files[k].extension = e})

C3_Witness ==
    /\ pc = "done"
    /\ entry = "_analyze_file_structure"
    /\ \E f \in DOMAIN fs_files : f.dir = <<N_git, N_src>>
    /\ structure.total_files > 0
    /\ DOMAIN structure.directories # {}

HasFileRecord(f) ==
    \/ pathjoin(relpath(f.dir), f.name) \in DOMAIN structure.files
    \/ f.dir = RootDir /\ f.name \in DOMAIN structure.files

WalkEligible == {f \in DOMAIN fs_files : ~contains(relpath(f.dir), N_git)}

\* C4: every file at any depth, files directly in the root included, that is
\* not inside an excluded directory has one FileRecord and is counted once in
\* file_types and in total_files.
C4_EveryFileRecorded ==
    pc = "done" =>
       /\ \A f \in WalkEligible : HasFileRecord(f)
       /\ structure.total_files = Cardinality(WalkEligible)
       /\ \A f \in WalkEligible :
             Get(structure.file_types, lower(splitext1(f.name)), 0) =
                Cardinality({g \in WalkEligible :
                                lower(splitext1(g.name)) = lower(splitext1(f.name))})

ExpectedFiles == {f \in SourceFiles : fs_files[f].status = "ok"}

RECURSIVE SumOver(_)
SumOver(fset) ==
    IF fset = {} THEN ZeroMetrics
    ELSE LET f == CHOOSE x \in fset : TRUE
         IN  AddFile(SumOver(fset \ {f}), fs_files[f].lines)

\* C5: a source-like file that cannot be opened or decoded leaves every field
\* of metrics unchanged and raises nothing; the final aggregate is the sum
\* over the files that were read, and all zero when none was.
C5_SkippedFilesContributeNothing ==
    /\ [][\A f \in mpend \ mpend' :
             (IsSourceLike(f.name) /\ fs_files[f].status # "ok") =>
                (metrics' = metrics /\ raised' = "none" /\ pc' = pc)]_vars
    /\ [](pc = "done" =>
            /\ raised = "none"
            /\ metrics = SumOver(ExpectedFiles)
            /\ (ExpectedFiles = {} => metrics = ZeroMetrics))

C5_Witness ==
    /\ pc = "done"
    /\ entry = "_analyze_code_metrics"
    /\ \E f \in SourceFiles : fs_files[f].status = "baddecode"
    /\ \E f \in SourceFiles : fs_files[f].status = "ok"
    /\ metrics.total_lines > 0

Techs == {config_files[i].tech : i \in 1..Len(config_files)}

MarkerFileAtRoot(tech) ==
    \E i \in 1..Len(config_files) :
       /\ config_files[i].tech = tech
       /\ \E f \in DOMAIN fs_files :
             f.dir = RootDir /\ f.name = config_files[i].file

\* C6: a technology is in languages exactly when one of its marker files
\* exists directly under the root; frameworks and dependencies stay empty.
C6_TechIffMarkerFile ==
    pc = "done" =>
       /\ \A t \in Techs : (t \in DOMAIN tech_stack.languages) <=> MarkerFileAtRoot(t)
       /\ DOMAIN tech_stack.languages \subseteq Techs
       /\ \A t \in DOMAIN tech_stack.languages : tech_stack.languages[t] = "detected"
       /\ tech_stack.frameworks = EmptyDict
       /\ tech_stack.dependencies = EmptyDict

\* C7: analyze_repository either succeeds with instructions.md and report.md
\* written, or fails having created no output file or directory.
C7_NoPartialSuccess ==
    (entry = "analyze_repository" /\ pc = "done") =>
       \/ result = "success" /\ instructions = "written" /\ report = "written"
       \/ result = "failure" /\ created = {}

MetadataUnavailable == gitMeta \in {"notrepo", "nocommits", "detached"}

\* C8: when version-control metadata cannot be supplied, the pipeline still
\* completes with sentinel repository info and the run is not reported failed.
C8_MissingMetadataTolerated ==
    (pc = "done" /\ MetadataUnavailable) =>
       /\ raised = "none"
       /\ repository_info # UnsetInfo
       /\ (entry = "analyze_repository" /\ instructions = "written"
              /\ report = "written") => result = "success"

\* C9: _analyze_file_structure fails with an access error when its root does
\* not exist or is not a directory; it never returns a structure for it.
C9_BadRootRaises ==
    (entry = "_analyze_file_structure" /\ pc = "done" /\ rootKind # "dir") =>
       raised # "none"

AnalysisComplete ==
    \/ pc \in {"prompt", "write_instructions", "write_report"}
    \/ pc = "done" /\ result = "success"
    \/ pc = "done" /\ entry = "_analyze_codebase" /\ raised = "none"

RecordedExtension(f) ==
    structure.files[pathjoin(relpath(f.dir), f.name)].extension

\* C10: a file contributes to the metrics only if the walker emitted a
\* FileRecord for it, and every decodable file with a FileRecord whose
\* recorded extension is source-like does contribute.
C10_MetricsOverWalkerFiles ==
    AnalysisComplete =>
       /\ \A f \in counted : HasFileRecord(f)
       /\ \A f \in DOMAIN fs_files :
             ( /\ pathjoin(relpath(f.dir), f.name) \in DOMAIN structure.files
               /\ fs_files[f].status = "ok"
               /\ RecordedExtension(f) \in SourceSuffixes ) => f \in counted

====
